---- MODULE Spec2Model ----
(***************************************************************************)
(* A model of falkordblite's three leaf utilities:                         *)
(*   - build_scripts/update_redis_server.py : download_with_retry and the  *)
(*     script body that stages the release archive at 'redis.submodule';   *)
(*   - version_utils.py : read_versions_file, get_redis_version,           *)
(*     get_falkordb_version;                                                *)
(*   - redislite/falkordb_client.py : the FalkorDB wrapper and Graph.      *)
(* Each utility has its own specification (SpecFetcher, SpecVersions,      *)
(* SpecClient); the variables of the other utilities stay idle.            *)
(***************************************************************************)
EXTENDS Integers, Sequences, FiniteSets, TLC

VARIABLES
    \* ---- archive fetcher (update_redis_server.py)
    main_pc,          \* position of the script body; "none" when only imported
    redis_submodule,  \* does the path 'redis_submodule' exist
    dest,             \* the directory 'redis.submodule'
    tempdir,          \* the TemporaryDirectory: NoDir or the set of its entries
    directory,        \* name of the archive's first member
    main_exc,         \* the exception that ended the script, or "none"
    dl_pc,            \* position inside download_with_retry
    dl_args,          \* its arguments
    attempt,          \* the loop variable
    attempts,         \* history: one record per urlopen call
    sleeps,           \* history: the arguments of time.sleep, in order
    log,              \* history: the logger calls, in order
    dl_result,        \* what download_with_retry gave its caller
    \* ---- version reader (version_utils.py)
    files,            \* the file system: path -> whether a file is there, and its lines
    ver_pc,           \* "idle" before the call, "done" after it
    ver_call,         \* the function called and its arguments
    ver_result,       \* what the call returned or raised
    \* ---- client wrapper (redislite/falkordb_client.py)
    db,               \* the FalkorDB instances: NoDB until constructed, then .client
    clients,          \* the embedded Redis clients the instances created, by identity
    cli_call,         \* the last method called: on which instance, with which argument
    cli_result,       \* what it returned or raised
    cli_reply,        \* what the embedded client did with the command the method sent
    libraries,        \* per instance, the libraries its caller asked to load and has not
                      \* asked to delete since
    \* ---- both the fetcher and the version reader read os.environ
    environ

fetchVars == <<main_pc, redis_submodule, dest, tempdir, directory, main_exc,
               dl_pc, dl_args, attempt, attempts, sleeps, log, dl_result>>
verVars == <<files, ver_pc, ver_call, ver_result>>
cliVars == <<db, clients, cli_call, cli_result, cli_reply, libraries>>
vars == <<fetchVars, verVars, cliVars, environ>>

(***************************************************************************)
(* Bounds of the model.                                                    *)
(***************************************************************************)
MaxRetries == 4
MaxLines == 2
MaxCleanups == 2

(***************************************************************************)
(* Strings the code takes apart are sequences of one-character strings.    *)
(***************************************************************************)
Upper == {"A", "B", "C", "D", "E", "F", "G", "H", "I", "J", "K", "L", "M",
          "N", "O", "P", "Q", "R", "S", "T", "U", "V", "W", "X", "Y", "Z"}
Lower == {"a", "b", "c", "d", "e", "f", "g", "h", "i", "j", "k", "l", "m",
          "n", "o", "p", "q", "r", "s", "t", "u", "v", "w", "x", "y", "z"}
Digits == {"0", "1", "2", "3", "4", "5", "6", "7", "8", "9"}
Whitespace == {" ", "\t", "\n", "\r"}

REDIS_VERSION == <<"R", "E", "D", "I", "S", "_", "V", "E", "R", "S", "I", "O", "N">>
FALKORDB_VERSION == <<"F", "A", "L", "K", "O", "R", "D", "B", "_", "V", "E", "R", "S", "I", "O", "N">>

\* version_utils.py line 16
ALLOWED_VERSION_KEYS == {REDIS_VERSION, FALKORDB_VERSION}

\* an environment variable that is not set
Unset == <<"<unset>">>

V_8_2_2 == <<"8", ".", "2", ".", "2">>
V_4_14_11 == <<"v", "4", ".", "1", "4", ".", "1", "1">>
V_6_0 == <<"6", ".", "0">>
V_Bad == <<"8", ";", "2">>

EnvValues == {Unset, V_6_0, V_Bad}

(***************************************************************************)
(* update_redis_server.py                                                  *)
(***************************************************************************)

\* line 18: redis_version = os.environ.get('REDIS_VERSION', '8.2.2')
environ_get(name, default) == IF environ[name] # Unset THEN environ[name] ELSE default

redis_version == environ_get(REDIS_VERSION, V_8_2_2)

\* line 19: the url; its netloc is a sequence of dot-separated labels
DownloadRedisIo == <<"download", "redis", "io">>
url == [netloc |-> DownloadRedisIo, version |-> redis_version]

Netlocs == {DownloadRedisIo, <<"github", "com">>, <<"api", "github", "com">>,
            <<"evilgithub", "com">>}

\* line 22: the defaults of download_with_retry
DefaultMaxRetries == 3
DefaultBackoffFactor == 2

\* what one call of urllib.request.urlopen can do
OutOk == [kind |-> "ok", code |-> 200]
OutHTTP(c) == [kind |-> "HTTPError", code |-> c]
OutURLError == [kind |-> "URLError", code |-> 0]
OutOther == [kind |-> "OSError", code |-> 0]
Outcomes == {OutOk, OutHTTP(403), OutHTTP(404), OutHTTP(500), OutURLError, OutOther}

NoResult == [kind |-> "pending", exc |-> OutOk]
Returned(k) == [kind |-> k, exc |-> OutOk]
Raised(e) == [kind |-> "raised", exc |-> e]

\* a faulty variant of wait_time: the delay grows linearly with the attempt
MutWaitTimeLinear(backoff_factor, att) == backoff_factor * att

\* lines 54 and 68: wait_time = backoff_factor ** attempt
wait_time(backoff_factor, att) == backoff_factor ^ att

\* a faulty variant of retries_left: the last attempt too counts as having a retry left
MutRetriesLeftOffByOne(att, max_retries) == att < max_retries

\* lines 53 and 67: attempt < max_retries - 1
retries_left(att, max_retries) == att < max_retries - 1

\* a faulty variant of is_github: every host is taken for GitHub
MutIsGithubAnyHost(netloc) == TRUE

\* line 61: parsed_url.netloc == 'github.com' or parsed_url.netloc.endswith('.github.com')
is_github(netloc) ==
    \/ netloc = <<"github", "com">>
    \/ /\ Len(netloc) > 2
       /\ SubSeq(netloc, Len(netloc) - 1, Len(netloc)) = <<"github", "com">>

\* a faulty variant of OnHTTPError: every status is retried as a 403 is
MutOnHTTPErrorRetryAll(e, att, args) ==
    IF retries_left(att, args.max_retries)
    THEN [act |-> "retry", wait |-> wait_time(args.backoff_factor, att),
          logs |-> <<"warning:403", "info:retrying">>]
    ELSE [act |-> "raise", wait |-> 0, logs |-> <<"warning:403", "error:failed">>]

\* lines 50-65: the handler of urllib.error.HTTPError
OnHTTPError(e, att, args) ==
    IF e.code = 403
    THEN IF retries_left(att, args.max_retries)
         THEN [act |-> "retry", wait |-> wait_time(args.backoff_factor, att),
               logs |-> <<"warning:403", "info:retrying">>]
         ELSE [act |-> "raise", wait |-> 0,
               logs |-> <<"warning:403", "error:failed">>
                        \o (IF is_github(args.netloc) THEN <<"error:token_hint">> ELSE <<>>)]
    ELSE [act |-> "raise", wait |-> 0, logs |-> <<>>]

\* lines 66-74: the handler of urllib.error.URLError
OnURLError(e, att, args) ==
    IF retries_left(att, args.max_retries)
    THEN [act |-> "retry", wait |-> wait_time(args.backoff_factor, att),
          logs |-> <<"warning:download_failed", "info:retrying">>]
    ELSE [act |-> "raise", wait |-> 0, logs |-> <<"error:failed">>]

\* lines 44-74: one pass of the loop body, given what urlopen did
OnOutcome(o, att, args) ==
    CASE o.kind = "ok" -> [act |-> "return", wait |-> 0, logs |-> <<>>]
      [] o.kind = "HTTPError" -> OnHTTPError(o, att, args)
      [] o.kind = "URLError" -> OnURLError(o, att, args)
      [] OTHER -> [act |-> "raise", wait |-> 0, logs |-> <<>>]

\* lines 38-43: entry of download_with_retry
Enter(args) ==
    /\ dl_pc' = "loop"
    /\ dl_args' = args
    /\ attempt' = 0
    /\ attempts' = <<>>
    /\ sleeps' = <<>>
    /\ log' = <<>>
    /\ dl_result' = NoResult

\* a direct call of download_with_retry(url, max_retries, backoff_factor, token)
download_with_retry ==
    /\ main_pc = "none"
    /\ dl_pc = "idle"
    /\ \E n \in Netlocs, m \in (-1)..MaxRetries, b \in {2, 3}, t \in BOOLEAN :
          Enter([netloc |-> n, max_retries |-> m, backoff_factor |-> b, token |-> t])
    /\ UNCHANGED <<main_pc, redis_submodule, dest, tempdir, directory, main_exc,
                   environ, verVars, cliVars>>

\* lines 43-74: one iteration of `for attempt in range(max_retries)`
Attempt ==
    /\ dl_pc = "loop"
    /\ attempt < dl_args.max_retries
    /\ \E o \in Outcomes :
          LET h == OnOutcome(o, attempt, dl_args) IN
          \* lines 45-49: the Authorization header is sent iff a token was given
          /\ attempts' = Append(attempts, [auth |-> dl_args.token, outcome |-> o])
          /\ log' = log \o h.logs
          /\ CASE h.act = "return" ->
                    /\ dl_pc' = "done"
                    /\ dl_result' = Returned("response")
                    /\ UNCHANGED <<attempt, sleeps>>
               [] h.act = "retry" ->
                    /\ sleeps' = Append(sleeps, h.wait)
                    /\ attempt' = attempt + 1
                    /\ UNCHANGED <<dl_pc, dl_result>>
               [] OTHER ->
                    /\ dl_pc' = "done"
                    /\ dl_result' = Raised(o)
                    /\ UNCHANGED <<attempt, sleeps>>
    /\ UNCHANGED <<main_pc, redis_submodule, dest, tempdir, directory, main_exc,
                   dl_args, environ, verVars, cliVars>>

\* line 43 with range(max_retries) used up: the function falls off its end
LoopEnd ==
    /\ dl_pc = "loop"
    /\ attempt >= dl_args.max_retries
    /\ dl_pc' = "done"
    /\ dl_result' = Returned("None")
    /\ UNCHANGED <<main_pc, redis_submodule, dest, tempdir, directory, main_exc,
                   dl_args, attempt, attempts, sleeps, log, environ, verVars, cliVars>>

\* directories: whether the path exists, where its content came from, its entries
NoDir == [exists |-> FALSE, origin |-> "none", children |-> {}]
Dir(o, c) == [exists |-> TRUE, origin |-> o, children |-> c]

\* line 85: directory = tf.next().name, the top-level directory of the release archive
ArchiveTop(u) == <<"redis-">> \o u.version
NewRelease == Dir("new", {<<"src">>})
OldRelease == Dir("old", {<<"old_src">>})

\* lines 78-79: if pathlib.Path('redis_submodule').exists(): shutil.rmtree('redis.submodule')
RemoveOld(exists_checked, d) ==
    IF exists_checked
    THEN IF d.exists
         THEN [dest |-> NoDir, exc |-> "none"]
         ELSE [dest |-> d, exc |-> "FileNotFoundError"]
    ELSE [dest |-> d, exc |-> "none"]

\* line 91: shutil.move(src, dst): into dst when dst is an existing directory
\* (an error when the name is taken there), else src becomes dst
Move(name, src, d) ==
    IF d.exists
    THEN IF name \in d.children
         THEN [dest |-> d, exc |-> "shutil.Error"]
         ELSE [dest |-> [d EXCEPT !.children = @ \cup {name}], exc |-> "none"]
    ELSE [dest |-> src, exc |-> "none"]

MainRemoveOld ==
    /\ main_pc = "start"
    /\ LET r == RemoveOld(redis_submodule, dest) IN
         /\ dest' = r.dest
         /\ main_exc' = r.exc
         /\ main_pc' = IF r.exc = "none" THEN "with" ELSE "failed"
    /\ UNCHANGED <<redis_submodule, tempdir, directory, dl_pc, dl_args, attempt,
                   attempts, sleeps, log, dl_result, environ, verVars, cliVars>>

\* lines 80-83: enter the TemporaryDirectory and call download_with_retry(url)
MainDownload ==
    /\ main_pc = "with"
    /\ tempdir' = Dir("temp", {})
    /\ Enter([netloc |-> url.netloc, max_retries |-> DefaultMaxRetries,
              backoff_factor |-> DefaultBackoffFactor, token |-> FALSE])
    /\ main_pc' = "download"
    /\ UNCHANGED <<redis_submodule, dest, directory, main_exc, environ, verVars, cliVars>>

\* lines 83-85: the download's result reaches the script; tarfile.open and tf.next()
MainOpen ==
    /\ main_pc = "download"
    /\ dl_pc = "done"
    /\ \E readable \in BOOLEAN :
         LET exc == CASE dl_result.kind = "raised" -> dl_result.exc.kind
                      [] dl_result.kind = "None" -> "TypeError"
                      [] ~readable -> "ReadError"
                      [] OTHER -> "none"
         IN /\ main_exc' = exc
            /\ main_pc' = IF exc = "none" THEN "extract" ELSE "failed"
            /\ directory' = IF exc = "none" THEN ArchiveTop(url) ELSE directory
            \* leaving the with block removes the temporary directory
            /\ tempdir' = IF exc = "none" THEN tempdir ELSE NoDir
    /\ UNCHANGED <<redis_submodule, dest, dl_pc, dl_args, attempt, attempts, sleeps,
                   log, dl_result, environ, verVars, cliVars>>

\* a faulty variant of MainExtract: the archive is extracted at the destination
MutMainExtractAtDest ==
    /\ main_pc = "extract"
    /\ \E ok \in BOOLEAN :
         IF ok
         THEN /\ dest' = IF dest.exists
                         THEN [dest EXCEPT !.children = @ \cup {directory}]
                         ELSE Dir("new", {directory})
              /\ main_pc' = "move"
              /\ UNCHANGED <<main_exc, tempdir>>
         ELSE /\ tempdir' = NoDir
              /\ main_pc' = "failed"
              /\ main_exc' = "ReadError"
              /\ UNCHANGED dest
    /\ UNCHANGED <<redis_submodule, directory, dl_pc, dl_args, attempt, attempts,
                   sleeps, log, dl_result, environ, verVars, cliVars>>

\* lines 87-88: tf.extractall(tempdir)
MainExtract ==
    /\ main_pc = "extract"
    /\ \E ok \in BOOLEAN :
         IF ok
         THEN /\ tempdir' = [tempdir EXCEPT !.children = @ \cup {directory}]
              /\ main_pc' = "move"
              /\ UNCHANGED main_exc
         ELSE /\ tempdir' = NoDir
              /\ main_pc' = "failed"
              /\ main_exc' = "ReadError"
    /\ UNCHANGED <<redis_submodule, dest, directory, dl_pc, dl_args, attempt, attempts,
                   sleeps, log, dl_result, environ, verVars, cliVars>>

\* lines 90-91 and the end of the with block
MainMove ==
    /\ main_pc = "move"
    /\ LET r == Move(directory, NewRelease, dest) IN
         /\ dest' = r.dest
         /\ main_exc' = r.exc
         /\ main_pc' = IF r.exc = "none" THEN "done" ELSE "failed"
    /\ tempdir' = NoDir
    /\ UNCHANGED <<redis_submodule, directory, dl_pc, dl_args, attempt, attempts,
                   sleeps, log, dl_result, environ, verVars, cliVars>>

(***************************************************************************)
(* version_utils.py                                                        *)
(***************************************************************************)

\* str.strip(): leading and trailing whitespace removed
RECURSIVE lstrip(_)
lstrip(s) == IF s # <<>> /\ Head(s) \in Whitespace THEN lstrip(Tail(s)) ELSE s

RECURSIVE rstrip(_)
rstrip(s) ==
    IF s # <<>> /\ s[Len(s)] \in Whitespace THEN rstrip(SubSeq(s, 1, Len(s) - 1)) ELSE s

strip(s) == rstrip(lstrip(s))

\* line 46: line and not line.startswith('#') and '=' in line
is_assignment(line) ==
    /\ line # <<>>
    /\ line[1] # "#"
    /\ \E i \in 1..Len(line) : line[i] = "="

\* line 47: key, value = line.split('=', 1)
RECURSIVE find(_, _, _)
find(s, c, i) == IF i > Len(s) THEN 0 ELSE IF s[i] = c THEN i ELSE find(s, c, i + 1)

split1(line) ==
    LET i == find(line, "=", 1) IN
    [key |-> SubSeq(line, 1, i - 1), value |-> SubSeq(line, i + 1, Len(line))]

\* line 57: re.match(r'^[A-Za-z_][A-Za-z0-9_]*$', key)
key_match(key) ==
    /\ key # <<>>
    /\ key[1] \in Upper \cup Lower \cup {"_"}
    /\ \A i \in 2..Len(key) : key[i] \in Upper \cup Lower \cup Digits \cup {"_"}

\* a faulty variant of value_match: the pattern without its '+$', so that only
\* the first character is tested
MutValueMatchUnanchored(value) ==
    /\ value # <<>>
    /\ value[1] \in Lower \cup Upper \cup Digits \cup {".", "-", "v"}

\* line 64: re.match(r'^[a-zA-Z0-9.\-v]+$', value)
value_match(value) ==
    /\ value # <<>>
    /\ \A i \in 1..Len(value) : value[i] \in Lower \cup Upper \cup Digits \cup {".", "-", "v"}

\* results of the three functions: a dict, a str, or an exception
NoVersions == [k \in {} |-> <<>>]
Pending == [kind |-> "pending", exc |-> "none", what |-> "none", line |-> 0,
            versions |-> NoVersions, value |-> <<>>]
RetDict(m) == [Pending EXCEPT !.kind = "dict", !.versions = m]
RetStr(v) == [Pending EXCEPT !.kind = "str", !.value = v]
Raise(e, w, n) == [Pending EXCEPT !.kind = "raised", !.exc = e, !.what = w, !.line = n]

\* a faulty variant of dict_set: a key already in the mapping keeps its value
MutDictSetKeepFirst(m, key, value) ==
    [k \in DOMAIN m \cup {key} |-> IF k \in DOMAIN m THEN m[k] ELSE value]

\* line 69: versions[key] = value
dict_set(m, key, value) ==
    [k \in DOMAIN m \cup {key} |-> IF k = key THEN value ELSE m[k]]

\* lines 86 and 101: versions.get(key, default)
dict_get(m, key, default) == IF key \in DOMAIN m THEN m[key] ELSE default

\* a faulty variant of ProcessLine: key and value are validated before the
\* whitelist is consulted
MutProcessLineChecksAllKeys(raw, line_num, versions) ==
    LET line == strip(raw)
        kv == split1(line)
        key == strip(kv.key)
        value == strip(kv.value)
    IN  IF ~is_assignment(line) THEN RetDict(versions)
        ELSE IF ~key_match(key) THEN Raise("ValueError", "key", line_num)
        ELSE IF ~value_match(value) THEN Raise("ValueError", "value", line_num)
        ELSE IF key \notin ALLOWED_VERSION_KEYS THEN RetDict(versions)
        ELSE RetDict(dict_set(versions, key, value))

\* lines 45-69: the body of the loop over the file's lines
ProcessLine(raw, line_num, versions) ==
    LET line == strip(raw)
        kv == split1(line)
        key == strip(kv.key)
        value == strip(kv.value)
    IN  IF ~is_assignment(line) THEN RetDict(versions)
        ELSE IF key \notin ALLOWED_VERSION_KEYS THEN RetDict(versions)
        ELSE IF ~key_match(key) THEN Raise("ValueError", "key", line_num)
        ELSE IF ~value_match(value) THEN Raise("ValueError", "value", line_num)
        ELSE RetDict(dict_set(versions, key, value))

\* lines 43-44: for line_num, line in enumerate(f, 1)
RECURSIVE read_lines(_, _, _)
read_lines(content, line_num, versions) ==
    IF line_num > Len(content) THEN RetDict(versions)
    ELSE LET r == ProcessLine(content[line_num], line_num, versions) IN
         IF r.kind = "raised" THEN r ELSE read_lines(content, line_num + 1, r.versions)

\* the file system
NoFile == [exists |-> FALSE, lines |-> <<>>]
File(content) == [exists |-> TRUE, lines |-> content]
DefaultPath == "versions.txt"
CustomPath == "custom.cfg"
Paths == {DefaultPath, CustomPath}

\* lines 37-40: the path used when none is given
resolve(versions_file_path) ==
    IF versions_file_path = "None" THEN DefaultPath ELSE versions_file_path

\* lines 19-71
read_versions_file(versions_file_path) ==
    LET path == resolve(versions_file_path) IN
    IF files[path].exists                             \* line 42: os.path.exists
    THEN read_lines(files[path].lines, 1, NoVersions)
    ELSE RetDict(NoVersions)

\* a faulty variant of get_redis_version: the file is read only when the
\* environment does not give the version
MutGetRedisVersionEnvFirst(versions_file_path, default) ==
    IF environ[REDIS_VERSION] # Unset THEN RetStr(environ[REDIS_VERSION])
    ELSE LET r == read_versions_file(versions_file_path) IN
         IF r.kind = "raised" THEN r
         ELSE RetStr(dict_get(r.versions, REDIS_VERSION, default))

\* a faulty variant of get_redis_version: the file's value wins over the environment
MutGetRedisVersionFileFirst(versions_file_path, default) ==
    LET r == read_versions_file(versions_file_path) IN
    IF r.kind = "raised" THEN r
    ELSE RetStr(dict_get(r.versions, REDIS_VERSION, environ_get(REDIS_VERSION, default)))

\* lines 74-86
get_redis_version(versions_file_path, default) ==
    LET r == read_versions_file(versions_file_path) IN
    IF r.kind = "raised" THEN r
    ELSE RetStr(environ_get(REDIS_VERSION, dict_get(r.versions, REDIS_VERSION, default)))

\* lines 89-101
get_falkordb_version(versions_file_path, default) ==
    LET r == read_versions_file(versions_file_path) IN
    IF r.kind = "raised" THEN r
    ELSE RetStr(environ_get(FALKORDB_VERSION, dict_get(r.versions, FALKORDB_VERSION, default)))

\* the lines the files of the model are made of
\* 'REDIS_VERSION=8.2.2'
L_Redis ==
    <<"R", "E", "D", "I", "S", "_", "V", "E", "R", "S", "I", "O", "N", "=", "8", ".", "2", ".", "2">>
\* 'FALKORDB_VERSION=v4.14.11'
L_Falkor ==
    <<"F", "A", "L", "K", "O", "R", "D", "B", "_", "V", "E", "R", "S", "I", "O", "N", "=", "v", "4", ".", "1", "4", ".", "1", "1">>
\* '  REDIS_VERSION = 7.0-rc1 '
L_RedisPadded ==
    <<" ", " ", "R", "E", "D", "I", "S", "_", "V", "E", "R", "S", "I", "O", "N", " ", "=", " ", "7", ".", "0", "-", "r", "c", "1", " ">>
\* '# REDIS_VERSION=1;1'
L_Comment ==
    <<"#", " ", "R", "E", "D", "I", "S", "_", "V", "E", "R", "S", "I", "O", "N", "=", "1", ";", "1">>
\* ''
L_Blank ==
    <<>>
\* 'OTHER_KEY=a;b'
L_OtherKey ==
    <<"O", "T", "H", "E", "R", "_", "K", "E", "Y", "=", "a", ";", "b">>
\* 'redis_version = 8.2.2'
L_IniRedis ==
    <<"r", "e", "d", "i", "s", "_", "v", "e", "r", "s", "i", "o", "n", " ", "=", " ", "8", ".", "2", ".", "2">>
\* 'falkordb_version = v4.12.5'
L_IniFalkor ==
    <<"f", "a", "l", "k", "o", "r", "d", "b", "_", "v", "e", "r", "s", "i", "o", "n", " ", "=", " ",
      "v", "4", ".", "1", "2", ".", "5">>
\* '[build_versions]'
L_BuildVersions ==
    <<"[", "b", "u", "i", "l", "d", "_", "v", "e", "r", "s", "i", "o", "n", "s", "]">>
\* '[metadata]'
L_Metadata ==
    <<"[", "m", "e", "t", "a", "d", "a", "t", "a", "]">>
\* 'name = test'
L_Name ==
    <<"n", "a", "m", "e", " ", "=", " ", "t", "e", "s", "t">>
\* 'REDIS_VERSION=8;2'
L_RedisBad ==
    <<"R", "E", "D", "I", "S", "_", "V", "E", "R", "S", "I", "O", "N", "=", "8", ";", "2">>
\* 'FALKORDB_VERSION='
L_FalkorEmpty ==
    <<"F", "A", "L", "K", "O", "R", "D", "B", "_", "V", "E", "R", "S", "I", "O", "N", "=">>

Lines == {L_Redis, L_Falkor, L_RedisPadded, L_Comment,
          L_Blank, L_OtherKey, L_IniRedis, L_BuildVersions,
          L_Metadata, L_Name, L_RedisBad, L_FalkorEmpty}

RECURSIVE SeqsUpTo(_, _)
SeqsUpTo(S, n) ==
    IF n = 0 THEN {<<>>}
    ELSE LET shorter == SeqsUpTo(S, n - 1) IN
         shorter \cup {Append(q, x) : q \in shorter, x \in S}

Contents == SeqsUpTo(Lines, MaxLines)

\* versions.txt as the repository ships it
ShippedVersionsTxt == <<L_Redis, L_Falkor>>

\* a setup.cfg whose [build_versions] section sets both versions
SetupCfg == <<L_BuildVersions, L_IniRedis, L_IniFalkor>>

NoCall == [fn |-> "none", path |-> "None", default |-> <<>>]

CallReadVersionsFile ==
    /\ ver_pc = "idle"
    /\ \E p \in {"None", CustomPath} :
         /\ ver_call' = [fn |-> "read_versions_file", path |-> p, default |-> <<>>]
         /\ ver_result' = read_versions_file(p)
    /\ ver_pc' = "done"
    /\ UNCHANGED <<fetchVars, files, environ, cliVars>>

CallGetRedisVersion ==
    /\ ver_pc = "idle"
    /\ \E p \in {"None", CustomPath}, d \in {V_8_2_2} :
         /\ ver_call' = [fn |-> "get_redis_version", path |-> p, default |-> d]
         /\ ver_result' = get_redis_version(p, d)
    /\ ver_pc' = "done"
    /\ UNCHANGED <<fetchVars, files, environ, cliVars>>

CallGetFalkordbVersion ==
    /\ ver_pc = "idle"
    /\ \E p \in {"None", CustomPath}, d \in {V_4_14_11} :
         /\ ver_call' = [fn |-> "get_falkordb_version", path |-> p, default |-> d]
         /\ ver_result' = get_falkordb_version(p, d)
    /\ ver_pc' = "done"
    /\ UNCHANGED <<fetchVars, files, environ, cliVars>>

(***************************************************************************)
(* redislite/falkordb_client.py                                            *)
(***************************************************************************)

\* Python values passed as arguments, tagged with their type
Str(t) == [type |-> "str", val |-> t]
PyNone == [type |-> "NoneType", val |-> "None"]
PyInt(t) == [type |-> "int", val |-> t]
Identifiers == {Str("social"), Str("test_graph"), Str(""), PyNone, PyInt("42")}

Wrappers == {"db1", "db2"}
NoDB == [constructed |-> FALSE, client |-> 0]

\* lines 43-54: Graph(client, name) keeps the name and the client and takes the
\* client's execute_command; the subclass of falkordb.Graph (lines 24-40) adds nothing
NoGraph == [name |-> PyNone, client |-> 0, execute_command |-> 0]
Graph(client, name) == [name |-> name, client |-> client, execute_command |-> client]

\* results of the wrapper's methods
CliPending == [kind |-> "pending", graph |-> NoGraph, list |-> <<>>, exc |-> "none"]
RetGraph(g) == [CliPending EXCEPT !.kind = "Graph", !.graph = g]
RetList(l) == [CliPending EXCEPT !.kind = "list", !.list = l]
RetNone == [CliPending EXCEPT !.kind = "None"]
CliRaise(e) == [CliPending EXCEPT !.kind = "raised", !.exc = e]

\* a faulty variant of select_graph: the handle does not keep the name given
MutSelectGraphDefaultName(self, name) ==
    RetGraph(Graph(self.client, IF name.type = "str" THEN Str("default") ELSE name))

\* line 107: return Graph(self.client, name)
select_graph(self, name) == RetGraph(Graph(self.client, name))

\* what self.client.execute_command("GRAPH.LIST") can do
ServerReplies == {[exc |-> "none", value |-> <<"social">>],
                  [exc |-> "none", value |-> <<"social", "test_graph">>],
                  [exc |-> "none", value |-> <<>>],
                  [exc |-> "ConnectionError", value |-> <<>>],
                  [exc |-> "ResponseError", value |-> <<>>]}

\* no command was sent
NoReply == [exc |-> "none", value |-> <<"<no command>">>]

\* lines 116-120
list_graphs(reply) ==
    IF reply.exc = "none"
    THEN RetList(IF reply.value # <<>> THEN reply.value ELSE <<>>)
    ELSE RetList(<<>>)

\* lines 81-95: FalkorDB(dbfilename, serverconfig): a new embedded client
FalkorDB_init ==
    \E w \in Wrappers, dbfilename \in {"None", "/tmp/falkordb.db"},
       serverconfig \in {"None", "{}"}, has_cleanup \in BOOLEAN :
        /\ ~db[w].constructed
        /\ LET id == Len(clients) + 1 IN
             /\ clients' = Append(clients,
                                  [dbfilename |-> dbfilename,
                                   \* line 93: serverconfig or {}
                                   serverconfig |-> IF serverconfig = "None" THEN "{}"
                                                    ELSE serverconfig,
                                   has_cleanup |-> has_cleanup,
                                   running |-> TRUE,
                                   cleanups |-> 0])
             /\ db' = [db EXCEPT ![w] = [constructed |-> TRUE, client |-> id]]
        /\ cli_call' = [op |-> "__init__", self |-> w, arg |-> PyNone]
        /\ cli_result' = RetNone
        /\ cli_reply' = NoReply
        /\ UNCHANGED <<libraries, fetchVars, verVars, environ>>

\* lines 97-107
FalkorDB_select_graph ==
    \E w \in Wrappers, name \in Identifiers :
        /\ db[w].constructed
        /\ cli_call' = [op |-> "select_graph", self |-> w, arg |-> name]
        /\ cli_result' = select_graph(db[w], name)
        /\ cli_reply' = NoReply
        /\ UNCHANGED <<db, clients, libraries, fetchVars, verVars, environ>>

\* lines 109-120
FalkorDB_list_graphs ==
    \E w \in Wrappers, reply \in ServerReplies :
        /\ db[w].constructed
        /\ cli_call' = [op |-> "list_graphs", self |-> w, arg |-> PyNone]
        /\ cli_result' = list_graphs(reply)
        /\ cli_reply' = reply
        /\ UNCHANGED <<db, clients, libraries, fetchVars, verVars, environ>>

\* redislite.client.Redis._cleanup, the cleanup hook: it releases the embedded
\* client's resources (the server it started); on a client already released it
\* has nothing left to release
Cleanup(client) == [client EXCEPT !.running = FALSE, !.cleanups = @ + 1]

\* a faulty variant of close: the hook is called without asking whether it exists
MutCloseNoHasattr(client) ==
    IF client.has_cleanup
    THEN [client |-> Cleanup(client), result |-> RetNone]
    ELSE [client |-> client, result |-> CliRaise("AttributeError")]

\* lines 122-125: if hasattr(self.client, '_cleanup'): self.client._cleanup()
close(client) ==
    IF client.has_cleanup
    THEN [client |-> Cleanup(client), result |-> RetNone]
    ELSE [client |-> client, result |-> RetNone]

\* lines 122-125
FalkorDB_close ==
    \E w \in Wrappers :
        /\ db[w].constructed
        /\ clients[db[w].client].cleanups < MaxCleanups
        /\ LET r == close(clients[db[w].client]) IN
             /\ clients' = [clients EXCEPT ![db[w].client] = r.client]
             /\ cli_result' = r.result
        /\ cli_call' = [op |-> "close", self |-> w, arg |-> PyNone]
        /\ cli_reply' = NoReply
        /\ UNCHANGED <<db, libraries, fetchVars, verVars, environ>>

\* lines 57-125: the names class FalkorDB defines (its methods, and the
\* attribute __init__ assigns); the class has no base class
FalkorDBAttrs == {"__init__", "select_graph", "list_graphs", "close", "client"}

\* the UDF operations of the falkordb-py API and the library names the tests use
UdfOps == {"udf_load", "udf_delete", "udf_list"}
Libs == {"mylib", "testlib"}

\* line 57: whether an instance of the class has the attribute
hasattr(name) == name \in FalkorDBAttrs

\* db.udf_load(lib, script), db.udf_delete(lib), db.udf_list(): the attribute
\* lookup fails before any command is sent
FalkorDB_udf ==
    \E w \in Wrappers, op \in UdfOps, lib \in Libs :
        /\ db[w].constructed
        /\ op = "udf_list" => lib = "mylib"
        /\ ~hasattr(op)
        /\ cli_call' = [op |-> op, self |-> w,
                        arg |-> IF op = "udf_list" THEN PyNone ELSE Str(lib)]
        /\ cli_result' = CliRaise("AttributeError")
        /\ cli_reply' = NoReply
        /\ libraries' = [libraries EXCEPT ![w] =
                            CASE op = "udf_load" -> @ \cup {lib}
                              [] op = "udf_delete" -> @ \ {lib}
                              [] OTHER -> @]
        /\ UNCHANGED <<db, clients, fetchVars, verVars, environ>>

(***************************************************************************)
(* The specifications: one per utility.                                    *)
(***************************************************************************)
ClientIdle ==
    /\ db = [w \in Wrappers |-> NoDB]
    /\ clients = <<>>
    /\ cli_call = [op |-> "none", self |-> "none", arg |-> PyNone]
    /\ cli_result = CliPending
    /\ cli_reply = NoReply
    /\ libraries = [w \in Wrappers |-> {}]

FetcherIdle ==
    /\ main_pc = "none"
    /\ redis_submodule = FALSE
    /\ dest = NoDir
    /\ tempdir = NoDir
    /\ directory = <<>>
    /\ main_exc = "none"
    /\ dl_pc = "idle"
    /\ dl_args = [netloc |-> DownloadRedisIo, max_retries |-> DefaultMaxRetries,
                  backoff_factor |-> DefaultBackoffFactor, token |-> FALSE]
    /\ attempt = 0
    /\ attempts = <<>>
    /\ sleeps = <<>>
    /\ log = <<>>
    /\ dl_result = NoResult

VersionsIdle ==
    /\ files = [p \in Paths |-> NoFile]
    /\ ver_pc = "idle"
    /\ ver_call = NoCall
    /\ ver_result = Pending

InitVersions ==
    /\ FetcherIdle
    /\ environ \in [ALLOWED_VERSION_KEYS -> EnvValues]
    /\ \E custom \in {File(c) : c \in Contents \cup {SetupCfg}} \cup {NoFile} :
         \E shipped \in {File(ShippedVersionsTxt)} \cup (IF custom = NoFile THEN {NoFile} ELSE {}) :
            files = [p \in Paths |-> IF p = DefaultPath THEN shipped ELSE custom]
    /\ ver_pc = "idle"
    /\ ver_call = NoCall
    /\ ver_result = Pending
    /\ ClientIdle

NextVersions ==
    \/ CallReadVersionsFile
    \/ CallGetRedisVersion
    \/ CallGetFalkordbVersion

SpecVersions == InitVersions /\ [][NextVersions]_vars

InitClient ==
    /\ FetcherIdle
    /\ VersionsIdle
    /\ environ = [k \in ALLOWED_VERSION_KEYS |-> Unset]
    /\ ClientIdle

NextClient ==
    \/ FalkorDB_init
    \/ FalkorDB_select_graph
    \/ FalkorDB_list_graphs
    \/ FalkorDB_close
    \/ FalkorDB_udf

SpecClient == InitClient /\ [][NextClient]_vars

\* the states the script can start in: the module imported ("none") or run as a
\* script ("start"), with either path present or not
InitFetcher ==
    /\ main_pc \in {"none", "start"}
    /\ environ \in {e \in [ALLOWED_VERSION_KEYS -> EnvValues] : e[FALKORDB_VERSION] = Unset}
    /\ redis_submodule \in BOOLEAN
    /\ dest \in {NoDir, OldRelease}
                \cup {Dir("old", {<<"old_src">>, <<"redis-">> \o v}) : v \in {V_8_2_2, V_6_0}}
    /\ tempdir = NoDir
    /\ directory = <<>>
    /\ main_exc = "none"
    /\ dl_pc = "idle"
    /\ dl_args = [netloc |-> DownloadRedisIo, max_retries |-> DefaultMaxRetries,
                  backoff_factor |-> DefaultBackoffFactor, token |-> FALSE]
    /\ attempt = 0
    /\ attempts = <<>>
    /\ sleeps = <<>>
    /\ log = <<>>
    /\ dl_result = NoResult
    \* versions.txt beside version_utils.py: absent, as shipped, or naming another release
    /\ \E shipped \in {NoFile, File(ShippedVersionsTxt), File(<<L_RedisPadded, L_Falkor>>)} :
          files = [p \in Paths |-> IF p = DefaultPath THEN shipped ELSE NoFile]
    /\ ver_pc = "idle"
    /\ ver_call = NoCall
    /\ ver_result = Pending
    /\ ClientIdle

NextFetcher ==
    \/ download_with_retry
    \/ Attempt
    \/ LoopEnd
    \/ MainRemoveOld
    \/ MainDownload
    \/ MainOpen
    \/ MainExtract
    \/ MainMove

SpecFetcher == InitFetcher /\ [][NextFetcher]_vars

(***************************************************************************)
(* Claims about the archive fetcher (checked under SpecFetcher).           *)
(***************************************************************************)
Responses(k) == \A i \in 1..Len(attempts) : attempts[i].outcome.kind = k
All403 == \A i \in 1..Len(attempts) : attempts[i].outcome = OutHTTP(403)
DlRunning == dl_pc \in {"loop", "done"}

\* C1: when every attempt of download_with_retry(url, max_retries=N) gets an
\* HTTP 403, exactly N attempts are made before the 403 is raised, and the delay
\* slept between consecutive attempts doubles each time: 1, 2, 4, ... seconds.
C1_Retry403 ==
    (DlRunning /\ All403 /\ attempts # <<>> /\ dl_args.backoff_factor = DefaultBackoffFactor) =>
        /\ Len(attempts) <= dl_args.max_retries
        /\ (dl_pc = "loop" => /\ Len(attempts) < dl_args.max_retries
                              /\ Len(sleeps) = Len(attempts))
        /\ (dl_pc = "done" => /\ dl_result = Raised(OutHTTP(403))
                              /\ Len(attempts) = dl_args.max_retries
                              /\ Len(sleeps) = dl_args.max_retries - 1)
        /\ (sleeps # <<>> => sleeps[1] = 1)
        /\ \A i \in 1..(Len(sleeps) - 1) : sleeps[i + 1] = 2 * sleeps[i]

C1_Witness ==
    /\ main_pc = "none"
    /\ dl_pc = "done"
    /\ All403
    /\ dl_args.max_retries = 4
    /\ dl_args.backoff_factor = DefaultBackoffFactor
    /\ Len(attempts) = 4
    /\ sleeps = <<1, 2, 4>>
    /\ dl_result = Raised(OutHTTP(403))

\* C2 as stated: every network error other than a 403 (any URLError, an HTTP
\* error with another status such as 404 or 500 included) is retried like a
\* 403, so a URLError or HTTP error reaches the caller only from the last of
\* max_retries attempts.
C2_AsClaimed ==
    (dl_pc = "done" /\ dl_result.kind = "raised"
        /\ dl_result.exc.kind \in {"URLError", "HTTPError"}) =>
            Len(attempts) = dl_args.max_retries

\* C2 amended: a URLError that is not an HTTP error is retried like a 403, with
\* the same backoff backoff_factor ** attempt, until max_retries attempts have
\* been made, and only the last attempt's failure is raised; an HTTP error with
\* a status other than 403 is not retried: it is raised by the attempt that got it.
C2_Amended ==
    DlRunning =>
        \A i \in 1..Len(attempts) :
            LET o == attempts[i].outcome IN
            /\ (o.kind = "URLError" \/ o = OutHTTP(403)) =>
                  IF i < dl_args.max_retries
                  THEN /\ Len(sleeps) >= i
                       /\ sleeps[i] = dl_args.backoff_factor ^ (i - 1)
                       /\ (Len(attempts) = i => dl_pc = "loop")
                  ELSE /\ i = dl_args.max_retries
                       /\ i = Len(attempts)
                       /\ Len(sleeps) = i - 1
                       /\ dl_pc = "done"
                       /\ dl_result = Raised(o)
            /\ (o.kind = "HTTPError" /\ o.code # 403) =>
                  /\ i = Len(attempts)
                  /\ Len(sleeps) = i - 1
                  /\ dl_pc = "done"
                  /\ dl_result = Raised(o)

C2_Witness ==
    /\ dl_pc = "done"
    /\ dl_args.max_retries = 3
    /\ Len(attempts) = 3
    /\ Responses("URLError")
    /\ sleeps = <<dl_args.backoff_factor ^ 0, dl_args.backoff_factor ^ 1>>
    /\ dl_result = Raised(OutURLError)

\* C3: when the script starts with 'redis.submodule' present, the directory is
\* removed before the archive is extracted and moved, so the move finds no
\* destination and a successful run leaves only the newly extracted release
\* there (no old content, no new directory nested in the old one).
C3_DestReplaced ==
    /\ (main_pc = "move" => ~dest.exists)
    /\ (main_pc = "done" => dest = NewRelease)

(***************************************************************************)
(* Claims about the version reader (checked under SpecVersions).           *)
(* What a file says is stated here without the reader's own operators:     *)
(* a line assigns to a key when the text before its '=' is the key with    *)
(* optional whitespace around it.                                          *)
(***************************************************************************)
MaxOf(S) == CHOOSE x \in S : \A y \in S : y <= x
MinOf(S) == CHOOSE x \in S : \A y \in S : x <= y

Trim(s) ==
    LET solid == {i \in 1..Len(s) : s[i] \notin Whitespace} IN
    IF solid = {} THEN <<>> ELSE SubSeq(s, MinOf(solid), MaxOf(solid))

AssignsTo(line, key) ==
    \E i \in 1..Len(line) : line[i] = "=" /\ Trim(SubSeq(line, 1, i - 1)) = key

AssignedValue(line, key) ==
    LET i == CHOOSE j \in 1..Len(line) : line[j] = "=" /\ Trim(SubSeq(line, 1, j - 1)) = key
    IN  Trim(SubSeq(line, i + 1, Len(line)))

\* letters, digits, '.' and '-'
ValidValue(v) == v # <<>> /\ \A i \in 1..Len(v) : v[i] \in Upper \cup Lower \cup Digits \cup {".", "-"}

FileAssigns(content, key) == {i \in 1..Len(content) : AssignsTo(content[i], key)}
FileValue(content, key) == AssignedValue(content[MaxOf(FileAssigns(content, key))], key)

Offending(content) ==
    {i \in 1..Len(content) :
        \E k \in ALLOWED_VERSION_KEYS :
            AssignsTo(content[i], k) /\ ~ValidValue(AssignedValue(content[i], k))}
WellFormed(content) == Offending(content) = {}

UnknownKeyLine(line) ==
    /\ \E j \in 1..Len(line) : line[j] = "="
    /\ \A k \in ALLOWED_VERSION_KEYS : ~AssignsTo(line, k)

RemoveAt(q, i) == SubSeq(q, 1, i - 1) \o SubSeq(q, i + 1, Len(q))

CalledFile == files[IF ver_call.path = "None" THEN DefaultPath ELSE ver_call.path]
CalledKey == IF ver_call.fn = "get_redis_version" THEN REDIS_VERSION ELSE FALKORDB_VERSION
GetVersionDone ==
    ver_pc = "done" /\ ver_call.fn \in {"get_redis_version", "get_falkordb_version"}

\* C4: for a well-formed flat config file, get_redis_version and
\* get_falkordb_version return the environment variable of the same name when
\* it is set, otherwise the value the file assigns to the key, and the default
\* only when neither the environment nor the file gives the key.
C4_EnvThenFileThenDefault ==
    (GetVersionDone /\ CalledFile.exists /\ WellFormed(CalledFile.lines)) =>
        ver_result = RetStr(
            IF environ[CalledKey] # Unset THEN environ[CalledKey]
            ELSE IF FileAssigns(CalledFile.lines, CalledKey) # {}
                 THEN FileValue(CalledFile.lines, CalledKey)
                 ELSE ver_call.default)

C4_Witness ==
    /\ ver_pc = "done"
    /\ ver_call.fn = "get_redis_version"
    /\ ver_call.path = CustomPath
    /\ files[CustomPath] = File(<<L_Redis, L_Falkor>>)
    /\ environ[REDIS_VERSION] = V_6_0
    /\ ver_result = RetStr(V_6_0)

\* C5: get_redis_version(path), and the read of the config source under it,
\* raises FileNotFoundError when no file is at the path; it never returns a
\* version for a missing source.
C5_MissingFileRaises ==
    (ver_pc = "done" /\ ver_call.fn \in {"get_redis_version", "read_versions_file"}
        /\ ~CalledFile.exists) =>
            (ver_result.kind = "raised" /\ ver_result.exc = "FileNotFoundError")

\* C6: get_redis_version(path) on an existing file with no [build_versions]
\* section raises a ValueError whose message names "[build_versions]".
C6_MissingSectionRaises ==
    (ver_pc = "done" /\ ver_call.fn = "get_redis_version" /\ CalledFile.exists
        /\ \A i \in 1..Len(CalledFile.lines) : Trim(CalledFile.lines[i]) # L_BuildVersions) =>
            (ver_result.kind = "raised" /\ ver_result.exc = "ValueError"
                /\ ver_result.what = "[build_versions]")

\* C7: when a line of the file assigns to REDIS_VERSION or FALKORDB_VERSION a
\* value that is empty or has a character outside letters, digits, '.' and '-',
\* read_versions_file raises a ValueError that gives the number of the (first)
\* offending line, and returns no mapping.
C7_InvalidValueRaises ==
    (ver_pc = "done" /\ CalledFile.exists /\ Offending(CalledFile.lines) # {}) =>
        ver_result = Raise("ValueError", "value", MinOf(Offending(CalledFile.lines)))

C7_Witness ==
    /\ ver_pc = "done"
    /\ ver_call.fn = "read_versions_file"
    /\ ver_call.path = CustomPath
    /\ files[CustomPath] = File(<<L_Redis, L_RedisBad>>)
    /\ ver_result = Raise("ValueError", "value", 2)

NonEmptyStr(x) == x.type = "str" /\ x.val # ""

\* C9: FalkorDB.select_graph(identifier) raises a TypeError, and returns no
\* graph handle, when identifier is the empty string or is not a string.
C9_BadIdentifierRaises ==
    (cli_call.op = "select_graph" /\ ~NonEmptyStr(cli_call.arg)) =>
        cli_result = CliRaise("TypeError")

\* C10: for every non-empty string name, select_graph(name) returns a graph
\* handle whose name is the input and which is bound to the embedded client of
\* the instance it was called on; the call changes nothing in the instance.
C10_SelectGraph ==
    [][(cli_call'.op = "select_graph" /\ NonEmptyStr(cli_call'.arg)) =>
          /\ cli_result'.kind = "Graph"
          /\ cli_result'.graph.name = cli_call'.arg
          /\ cli_result'.graph.client = db[cli_call'.self].client
          /\ cli_result'.graph.execute_command = db[cli_call'.self].client
          /\ db' = db
          /\ clients' = clients]_vars

C10_Witness ==
    /\ cli_call = [op |-> "select_graph", self |-> "db1", arg |-> Str("test_graph")]
    /\ db["db1"].client = 2
    /\ db["db2"].client = 1
    /\ cli_result = RetGraph(Graph(2, Str("test_graph")))

\* C11: close() is idempotent. The first call releases the embedded client's
\* resources through the cleanup hook when there is one; a later call on the
\* same instance raises nothing and releases nothing further; with no hook
\* every call does nothing. No call touches the instance or another client.
C11_CloseIdempotent ==
    [][cli_call'.op = "close" =>
          LET c == db[cli_call'.self].client IN
          /\ cli_result' = RetNone
          /\ db' = db
          /\ \A i \in 1..Len(clients) : i # c => clients'[i] = clients[i]
          /\ Len(clients') = Len(clients)
          /\ IF clients[c].has_cleanup
             THEN /\ ~clients'[c].running
                  /\ clients'[c] = [clients[c] EXCEPT !.running = FALSE,
                                                      !.cleanups = clients'[c].cleanups]
             ELSE clients'[c] = clients[c]]_vars

C11_Witness ==
    /\ cli_call = [op |-> "close", self |-> "db1", arg |-> PyNone]
    /\ db["db1"].constructed
    /\ clients[db["db1"].client].has_cleanup
    /\ clients[db["db1"].client].cleanups = 2
    /\ ~clients[db["db1"].client].running
    /\ cli_result = RetNone

\* C12: a failure raised by the embedded client or the server while a wrapper
\* operation executes a server command reaches the caller unmodified; the only
\* operation of the wrapper that sends a command is list_graphs (GRAPH.LIST).
C12_FailurePropagates ==
    (cli_call.op = "list_graphs" /\ cli_reply.exc # "none")
        => cli_result = CliRaise(cli_reply.exc)

(***************************************************************************)
(* What an INI file says: the options of its [build_versions] section are  *)
(* the assignments after that header and before the next header.           *)
(***************************************************************************)
redis_version_option == <<"r", "e", "d", "i", "s", "_", "v", "e", "r", "s", "i", "o", "n">>
falkordb_version_option ==
    <<"f", "a", "l", "k", "o", "r", "d", "b", "_", "v", "e", "r", "s", "i", "o", "n">>
OptionOf(key) == IF key = REDIS_VERSION THEN redis_version_option ELSE falkordb_version_option

IsHeader(line) == Trim(line) # <<>> /\ Trim(line)[1] = "["
SectionAssigns(content, key) ==
    {i \in 1..Len(content) :
        /\ AssignsTo(content[i], OptionOf(key))
        /\ \E h \in 1..(i - 1) :
              /\ Trim(content[h]) = L_BuildVersions
              /\ \A j \in (h + 1)..(i - 1) : ~IsHeader(content[j])}
SectionValue(content, key) ==
    AssignedValue(content[MaxOf(SectionAssigns(content, key))], OptionOf(key))
SetsBothVersions(content) ==
    \A k \in ALLOWED_VERSION_KEYS : SectionAssigns(content, k) # {}

\* C13: for an INI file whose [build_versions] section sets redis_version and
\* falkordb_version, the reader returns a mapping holding REDIS_VERSION and
\* FALKORDB_VERSION with the section's values, and get_redis_version(path) and
\* get_falkordb_version(path) return the section's values (the environment
\* not overriding them), not the defaults.
C13_IniSectionRead ==
    (ver_pc = "done" /\ CalledFile.exists /\ SetsBothVersions(CalledFile.lines)) =>
        IF ver_call.fn = "read_versions_file"
        THEN /\ ver_result.kind = "dict"
             /\ \A k \in ALLOWED_VERSION_KEYS :
                   /\ k \in DOMAIN ver_result.versions
                   /\ ver_result.versions[k] = SectionValue(CalledFile.lines, k)
        ELSE environ[CalledKey] = Unset =>
                ver_result = RetStr(SectionValue(CalledFile.lines, CalledKey))

\* C14: after any sequence of udf_load(lib, script) and udf_delete(lib) calls
\* on an instance, udf_list() on it returns the list of exactly the libraries
\* that were loaded and not deleted since.
C14_UdfListReportsLoaded ==
    cli_call.op = "udf_list" =>
        /\ cli_result.kind = "list"
        /\ {cli_result.list[i] : i \in 1..Len(cli_result.list)} = libraries[cli_call.self]
        /\ Len(cli_result.list) = Cardinality(libraries[cli_call.self])

(***************************************************************************)
(* Further claims about download_with_retry (checked under SpecFetcher).   *)
(***************************************************************************)
TokenHint == "error:token_hint"
Logged(entry) == \E i \in 1..Len(log) : log[i] = entry

\* the last attempt allowed was made and got a 403, which was raised
Exhausted403 ==
    /\ dl_pc = "done"
    /\ attempts # <<>>
    /\ Len(attempts) = dl_args.max_retries
    /\ attempts[Len(attempts)].outcome = OutHTTP(403)
    /\ dl_result = Raised(OutHTTP(403))

\* the host is github.com or one of its subdomains
GitHubHost(netloc) ==
    \E sub \in {SubSeq(netloc, 1, n) : n \in 0..Len(netloc)} : netloc = sub \o <<"github", "com">>

\* C15: whenever download_with_retry has used up its attempts on 403 responses,
\* the hint to supply a token has been logged by the time the error is raised,
\* whatever the host of the URL; and no hint is logged while attempts remain.
C15_AsClaimed ==
    /\ Exhausted403 => Logged(TokenHint)
    /\ dl_pc = "loop" => ~Logged(TokenHint)

\* C15 amended: the hint is logged exactly when the call has used up its
\* attempts, the last of them got a 403 and the URL's host is github.com or a
\* subdomain of it; it is then the last entry logged, once, after the error
\* entry and before the 403 is raised. For any other host, and while attempts
\* remain, no hint is logged.
C15_Amended ==
    /\ Logged(TokenHint) <=>
          (Exhausted403 /\ GitHubHost(dl_args.netloc))
    /\ Logged(TokenHint) =>
          /\ Len(log) >= 2
          /\ log[Len(log)] = TokenHint
          /\ log[Len(log) - 1] = "error:failed"
          /\ \A i \in 1..(Len(log) - 1) : log[i] # TokenHint

C15_Witness ==
    /\ Exhausted403
    /\ dl_args.max_retries = 3
    /\ dl_args.netloc = <<"api", "github", "com">>
    /\ log[Len(log)] = TokenHint
    /\ Len(sleeps) = 2

\* C16: every mapping read_versions_file returns has only keys of the whitelist
\* {REDIS_VERSION, FALKORDB_VERSION}, and every value in it is a non-empty
\* string of letters, digits, '.' and '-'.
C16_MappingWhitelisted ==
    (ver_pc = "done" /\ ver_call.fn = "read_versions_file" /\ ver_result.kind = "dict") =>
        /\ DOMAIN ver_result.versions \subseteq ALLOWED_VERSION_KEYS
        /\ \A k \in DOMAIN ver_result.versions : ValidValue(ver_result.versions[k])

C16_Witness ==
    /\ ver_pc = "done"
    /\ ver_call.fn = "read_versions_file"
    /\ ver_call.path = CustomPath
    /\ files[CustomPath] = File(<<L_OtherKey, L_RedisPadded>>)
    /\ ver_result.kind = "dict"
    /\ DOMAIN ver_result.versions = {REDIS_VERSION}
    /\ ver_result.versions[REDIS_VERSION] = <<"7", ".", "0", "-", "r", "c", "1">>

\* the version get_redis_version() resolves: the environment variable when set,
\* otherwise the value versions.txt assigns to REDIS_VERSION, otherwise the default
ResolvedRedisVersion ==
    IF environ[REDIS_VERSION] # Unset THEN environ[REDIS_VERSION]
    ELSE IF files[DefaultPath].exists /\ FileAssigns(files[DefaultPath].lines, REDIS_VERSION) # {}
         THEN FileValue(files[DefaultPath].lines, REDIS_VERSION)
         ELSE V_8_2_2

\* C17: the URL the fetcher downloads is made with the version that
\* get_redis_version() resolves: the environment variable REDIS_VERSION when
\* set, otherwise the REDIS_VERSION of the configuration file, otherwise the
\* default; the archive's top directory is named after the same version.
C17_UrlUsesResolvedVersion ==
    main_pc \in {"download", "extract", "move", "done"} =>
        /\ url.version = ResolvedRedisVersion
        /\ get_redis_version("None", V_8_2_2) = RetStr(url.version)
        /\ main_pc # "download" => directory = <<"redis-">> \o ResolvedRedisVersion

(***************************************************************************)
(* Further claims about the script body (checked under SpecFetcher).       *)
(***************************************************************************)
\* C18: the archive is extracted only into the fresh temporary directory, and
\* 'redis.submodule' gets content only by the final move, made after the
\* download returned a response and the extraction completed; a step in which
\* the download or the extraction fails leaves the destination as it was.
C18_DestOnlyByFinalMove ==
    [][/\ main_pc' = "download" /\ main_pc = "with" => tempdir' = Dir("temp", {})
       /\ (main_pc = "extract" /\ main_pc' = "move") =>
             /\ tempdir.origin = "temp"
             /\ tempdir' = [tempdir EXCEPT !.children = @ \cup {directory}]
             /\ dest' = dest
       /\ dest' # dest =>
             \/ main_pc = "start" /\ dest' = NoDir
             \/ /\ main_pc = "move" /\ main_pc' = "done"
                /\ dl_pc = "done" /\ dl_result = Returned("response")
                /\ tempdir.origin = "temp" /\ directory \in tempdir.children
       /\ (main_pc \in {"with", "download", "extract"} /\ main_pc' = "failed") => dest' = dest
       /\ main_pc \in {"with", "download", "extract"} => dest' = dest]_vars

C18_Witness ==
    /\ main_pc = "done"
    /\ dl_result = Returned("response")
    /\ Len(attempts) = 2
    /\ dest = NewRelease
    /\ tempdir = NoDir

Failed(i) == attempts[i].outcome.kind # "ok"

\* C19: for max_retries >= 1 and whatever the attempts get, download_with_retry
\* makes at most max_retries attempts and is over once it has made them all;
\* it returns the response of the first successful attempt, with no attempt and
\* no sleep after it; it sleeps only between two attempts (at most
\* max_retries - 1 times, never after the last attempt), the k-th sleep lasting
\* backoff_factor ^ (k - 1); otherwise it raises the error of the attempt that
\* ended the loop.
C19_BoundedRetry ==
    (DlRunning /\ dl_args.max_retries >= 1) =>
        /\ Len(attempts) <= dl_args.max_retries
        /\ Len(sleeps) <= dl_args.max_retries - 1
        /\ \A k \in 1..Len(sleeps) : sleeps[k] = dl_args.backoff_factor ^ (k - 1)
        /\ \A i \in 1..(Len(attempts) - 1) : Failed(i)
        /\ dl_pc = "loop" =>
              /\ Len(attempts) < dl_args.max_retries
              /\ Len(sleeps) = Len(attempts)
              /\ \A i \in 1..Len(attempts) : Failed(i)
              /\ dl_result = NoResult
        /\ dl_pc = "done" =>
              /\ attempts # <<>>
              /\ Len(sleeps) = Len(attempts) - 1
              /\ IF Failed(Len(attempts))
                 THEN dl_result = Raised(attempts[Len(attempts)].outcome)
                 ELSE dl_result = Returned("response")

C19_Witness ==
    /\ dl_pc = "done"
    /\ dl_args.max_retries = 4
    /\ dl_args.backoff_factor = 3
    /\ Len(attempts) = 3
    /\ attempts[1].outcome = OutURLError
    /\ attempts[2].outcome = OutHTTP(403)
    /\ attempts[3].outcome = OutOk
    /\ sleeps = <<1, 3>>
    /\ dl_result = Returned("response")

\* C20: with max_retries <= 0 download_with_retry makes no attempt, raises
\* nothing and returns None; with max_retries >= 1 it never returns None: it
\* ends by returning a response or by raising.
C20_NoneOnlyWithoutAttempts ==
    /\ (DlRunning /\ dl_args.max_retries <= 0) =>
          /\ attempts = <<>>
          /\ sleeps = <<>>
          /\ log = <<>>
          /\ dl_pc = "done" => dl_result = Returned("None")
    /\ (dl_pc = "done" /\ dl_args.max_retries >= 1) =>
          /\ dl_result.kind \in {"response", "raised"}
          /\ attempts # <<>>

C20_Witness ==
    /\ dl_pc = "done"
    /\ dl_args.max_retries = 0
    /\ attempts = <<>>
    /\ dl_result = Returned("None")

(***************************************************************************)
(* Further claims about the version reader (checked under SpecVersions).   *)
(***************************************************************************)
\* C21: the environment override does not bypass the validation of the file.
\* get_redis_version and get_falkordb_version read the whole file first: when
\* some line assigns an invalid value to a whitelisted key, the requested one
\* or the other, the call raises the ValueError of the first such line even
\* though the requested version's environment variable is set. When the file
\* raises nothing, a set environment variable is returned as it is, whatever
\* its characters.
C21_EnvDoesNotBypassValidation ==
    GetVersionDone =>
        IF CalledFile.exists /\ Offending(CalledFile.lines) # {}
        THEN ver_result = Raise("ValueError", "value", MinOf(Offending(CalledFile.lines)))
        ELSE environ[CalledKey] # Unset => ver_result = RetStr(environ[CalledKey])

C21_Witness ==
    /\ ver_pc = "done"
    /\ ver_call.fn = "get_redis_version"
    /\ ver_call.path = CustomPath
    /\ environ[REDIS_VERSION] = V_Bad
    /\ files[CustomPath] = File(<<L_Redis, L_FalkorEmpty>>)
    /\ ver_result = Raise("ValueError", "value", 2)

\* the file with lines i and i + 1 exchanged
SwapAt(content, i) ==
    [j \in 1..Len(content) |->
        IF j = i THEN content[i + 1] ELSE IF j = i + 1 THEN content[i] ELSE content[j]]
SameKey(l1, l2) == \E k \in ALLOWED_VERSION_KEYS : AssignsTo(l1, k) /\ AssignsTo(l2, k)

\* C22: read_versions_file takes the lines in file order. For a file whose
\* assignments to whitelisted keys all have valid values, the mapping returned
\* holds, for each key assigned, the value of the last line assigning it, and
\* exchanging two neighbouring lines that do not assign the same key gives the
\* same mapping.
C22_LastAssignmentWins ==
    (ver_pc = "done" /\ ver_call.fn = "read_versions_file"
        /\ CalledFile.exists /\ WellFormed(CalledFile.lines)) =>
        LET content == CalledFile.lines IN
        /\ ver_result.kind = "dict"
        /\ DOMAIN ver_result.versions =
              {k \in ALLOWED_VERSION_KEYS : FileAssigns(content, k) # {}}
        /\ \A k \in DOMAIN ver_result.versions :
              ver_result.versions[k] = FileValue(content, k)
        /\ \A i \in 1..(Len(content) - 1) :
              ~SameKey(content[i], content[i + 1]) =>
                  read_lines(SwapAt(content, i), 1, NoVersions) = ver_result

C22_Witness ==
    /\ ver_pc = "done"
    /\ ver_call.fn = "read_versions_file"
    /\ ver_call.path = CustomPath
    /\ files[CustomPath] = File(<<L_Redis, L_RedisPadded>>)
    /\ ver_result = RetDict(dict_set(NoVersions, REDIS_VERSION, <<"7", ".", "0", "-", "r", "c", "1">>))

====
